---- MODULE Spec2Model ----
(***************************************************************************)
(* SmartWatch3D (src/SmartWatch3D/Main.cpp): the frame loop of main, the   *)
(* GLFW input callbacks, the per-frame update functions and the screen     *)
(* navigation done by the watch UI pass.                                   *)
(*                                                                         *)
(* Time is counted in ticks, TicksPerSec ticks to the second, so the       *)
(* code's 1.0 s and 10.0 s thresholds are TicksPerSec and 10*TicksPerSec.  *)
(* Pointer positions are pixels; normalized device coordinates are kept in *)
(* thousandths (0.8 is 800).  cameraBasePitch is kept in tenths of a       *)
(* degree, so the 0.1 sensitivity makes one pixel one unit.                *)
(***************************************************************************)
EXTENDS Integers, FiniteSets, Sequences, TLC

VARIABLES
    currentScreen,      \* 0 = clock, 1 = heart rate, 2 = battery
    hours, minutes, seconds,
    lastSecondTime,     \* time of the last clock tick
    batteryPercent,
    lastBatteryDrain,   \* time of the last battery decrement
    lastTime,           \* main's lastTime: currentTime of the last frame
    isRunning,
    watchViewMode,
    mouseX, mouseY,
    lastMouseY,
    firstMouse,
    mouseClicked,
    cameraBasePitch,
    depthTestEnabled,
    faceCullingEnabled,
    windowShouldClose,  \* GLFW's close flag of the window
    keyD,               \* GLFW's cached state of the D key (glfwGetKey)
    bpm, targetBpm,     \* thousandths of a beat per minute
    ekgOffset,          \* thousandths
    ekgScale,           \* thousandths, or "inf" / "nan"
    runTime,            \* thousandths
    groundOffset,       \* thousandths of a world unit
    cameraBobOffset,    \* ten-thousandths of a world unit
    pc,                 \* position of main in the frame loop
    polled,             \* events delivered by the current glfwPollEvents
    \* history variables (not program state)
    clicksQueued,       \* left-press events since mouseClicked was last reset
    clickInRect,        \* some such click was made with the pointer in a hot-rect
    clickInMode,        \* some such click was made in watch-view mode
    clickAge,           \* UI passes that have seen the flag since it was raised
    navCount,           \* screen changes since the flag was raised
    jumped,             \* some frame stepped over a 10 s boundary
    steps,              \* update steps taken by the simulator specifications
    holdTime,           \* sixtieths of a second the current hold of the run key has lasted
    holdBad,            \* some step of the current hold did not raise bpm
    boundFramebuffer,   \* GL_FRAMEBUFFER binding: "default" (0) or "watchFBO"
    glLive,             \* GL objects created and not deleted by the program
    fboWriters,         \* stages of this frame that drew into watchFBO
    texReaders,         \* stages of this frame that sampled watchScreenTexture
    uIsEmissive,        \* value of basicShader's uIsEmissive uniform
    sceneDraws,         \* <<object, uIsEmissive>> of each renderScene draw call since the last swap
    digits,             \* the statics of the three draw functions: digit textures and memo keys
    uiDigits            \* what the last UI pass did with its digit texture

clockVars   == <<hours, minutes, seconds, lastSecondTime>>
batteryVars == <<batteryPercent, lastBatteryDrain>>
inputVars   == <<watchViewMode, mouseX, mouseY, lastMouseY, firstMouse,
                 mouseClicked, cameraBasePitch, depthTestEnabled,
                 faceCullingEnabled, windowShouldClose, keyD>>
heartVars   == <<bpm, targetBpm, ekgOffset, ekgScale>>
runVars     == <<runTime, groundOffset, cameraBobOffset>>
simHist     == <<steps, holdTime, holdBad>>
simVars     == <<heartVars, runVars, simHist>>
sceneVars   == <<uIsEmissive, sceneDraws>>
digitVars   == <<digits, uiDigits>>
glVars      == <<boundFramebuffer, glLive, fboWriters, texReaders, sceneVars, digitVars>>
histVars    == <<clicksQueued, clickInRect, clickInMode, clickAge, navCount>>
vars == <<currentScreen, clockVars, batteryVars, lastTime, isRunning,
          inputVars, pc, polled, histVars, jumped, simVars, glVars>>

----------------------------------------------------------------------------
(* Bounds of the model *)

TicksPerSec    == 2      \* time resolution
StartTime      == 1      \* glfwGetTime() when main initializes its timers
MaxFrameDt     == 2      \* longest frame of the frame-loop specification
MaxFrameTime   == 8      \* the frame-loop specification stops the clock here
MaxEvents      == 2      \* events delivered by one glfwPollEvents
MaxClockDt     == 3      \* longest gap between two updateClock calls
MaxClockTime   == 12     \* last currentTime given to updateClock
MaxBatterySec  == 1030   \* seconds covered by the battery specification
MaxSimSteps    == 5      \* update steps of the simulator specification
MaxUpdateSteps == 5      \* frames of the update-order specification
MaxGroundSteps == 4      \* update steps of the ground-scroll specification
MaxScenarioSteps == 185  \* update steps of the 3 s scenario specification
BpmEpsilon     == 100    \* "within epsilon of 220": 0.1 bpm

(* Program constants *)

screenWidth    == 1920
screenHeight   == 1080
PitchLimit     == 450    \* 45.0 degrees
ArrowX         == 800    \* 0.8
ArrowSize      == 100    \* 0.1
FullBattery    == 100
StartBpm       == 70000  \* 70.0
MaxBpm         == 220000 \* 220.0
RestBpm        == 60000  \* 60.0
GroundSegmentLength == 20000   \* 20.0
NumGroundSegments   == 5
NumBuildingsPerSide == 6
BuildingSpacing     == 15000   \* 15.0
BuildingNearZ       == 10000   \* 10.0: wrap threshold, and -10.0 is the first building
PiMilli        == 3142

OneSecond  == TicksPerSec          \* 1.0
SixtiethsPerTick == 60 \div TicksPerSec   \* frame durations reach the simulator in 1/60 s
HoldSeconds == 5 * 60                \* 5 s in sixtieths
TenSeconds == 10 * TicksPerSec     \* 10.0

(* Sampled inputs.  The pointer positions lie well inside or well outside   *)
(* the arrow rects, where float rounding of the hit test plays no part.     *)

MouseXs == {200, 960, 1700}   \* inside the left arrow, centre, inside the right arrow
MouseYs == {100, 540}         \* above the arrows, on the arrows' row
ClockStarts == { <<h, m, s>> : h \in {0, 22, 23}, m \in {0, 58, 59}, s \in {0, 58, 59} }
SimDts   == {1, 15, 60}       \* frames of 1/60 s, 1/4 s and 1 s, in sixtieths
SimRands == {0, 19}           \* rand() % 20
GroundDts == {60, 240, 1200}  \* frames of 1 s, 4 s and 20 s, in sixtieths
FrameRands == {19}            \* rand() % 20 in the frame-loop specification
BatteryDts == { 5 * k * TicksPerSec : k \in {1, 2, 5} }   \* frames of 5, 10, 25 s

----------------------------------------------------------------------------
(* Update functions *)

(* updateClock with the seconds wrap tested by > instead of >= *)
updateClockLateWrap(currentTime, c) ==
    IF currentTime - c.lastSecondTime >= OneSecond
    THEN LET s1 == c.seconds + 1
             m1 == c.minutes + 1
             h1 == c.hours + 1
         IN  IF s1 > 60
             THEN IF m1 >= 60
                  THEN [lastSecondTime |-> currentTime, seconds |-> 0, minutes |-> 0,
                        hours |-> IF h1 >= 24 THEN 0 ELSE h1]
                  ELSE [lastSecondTime |-> currentTime, seconds |-> 0, minutes |-> m1,
                        hours |-> c.hours]
             ELSE [lastSecondTime |-> currentTime, seconds |-> s1,
                   minutes |-> c.minutes, hours |-> c.hours]
    ELSE c

(* updateClock with the carry into hours left out *)
updateClockNoHourCarry(currentTime, c) ==
    IF currentTime - c.lastSecondTime >= OneSecond
    THEN LET s1 == c.seconds + 1
             m1 == c.minutes + 1
         IN  IF s1 >= 60
             THEN IF m1 >= 60
                  THEN [lastSecondTime |-> currentTime, seconds |-> 0, minutes |-> 0,
                        hours |-> c.hours]
                  ELSE [lastSecondTime |-> currentTime, seconds |-> 0, minutes |-> m1,
                        hours |-> c.hours]
             ELSE [lastSecondTime |-> currentTime, seconds |-> s1,
                   minutes |-> c.minutes, hours |-> c.hours]
    ELSE c

(* updateClock ticking on every call that finds the time advanced *)
updateClockEveryCall(currentTime, c) ==
    IF currentTime - c.lastSecondTime > 0
    THEN LET s1 == c.seconds + 1
             m1 == c.minutes + 1
             h1 == c.hours + 1
         IN  IF s1 >= 60
             THEN IF m1 >= 60
                  THEN [lastSecondTime |-> currentTime, seconds |-> 0, minutes |-> 0,
                        hours |-> IF h1 >= 24 THEN 0 ELSE h1]
                  ELSE [lastSecondTime |-> currentTime, seconds |-> 0, minutes |-> m1,
                        hours |-> c.hours]
             ELSE [lastSecondTime |-> currentTime, seconds |-> s1,
                   minutes |-> c.minutes, hours |-> c.hours]
    ELSE c

updateClock(currentTime, c) ==
    IF currentTime - c.lastSecondTime >= OneSecond
    THEN LET s1 == c.seconds + 1
             m1 == c.minutes + 1
             h1 == c.hours + 1
         IN  IF s1 >= 60
             THEN IF m1 >= 60
                  THEN [lastSecondTime |-> currentTime, seconds |-> 0, minutes |-> 0,
                        hours |-> IF h1 >= 24 THEN 0 ELSE h1]
                  ELSE [lastSecondTime |-> currentTime, seconds |-> 0, minutes |-> m1,
                        hours |-> c.hours]
             ELSE [lastSecondTime |-> currentTime, seconds |-> s1,
                   minutes |-> c.minutes, hours |-> c.hours]
    ELSE c

(* updateBattery without the batteryPercent > 0 test *)
updateBatteryNoFloor(currentTime, b) ==
    IF currentTime - b.lastBatteryDrain >= TenSeconds
    THEN [lastBatteryDrain |-> currentTime, batteryPercent |-> b.batteryPercent - 1]
    ELSE b

(* updateBattery with the 10 s test made by > instead of >= *)
updateBatteryStrict(currentTime, b) ==
    IF currentTime - b.lastBatteryDrain > TenSeconds /\ b.batteryPercent > 0
    THEN [lastBatteryDrain |-> currentTime, batteryPercent |-> b.batteryPercent - 1]
    ELSE b

updateBattery(currentTime, b) ==
    IF currentTime - b.lastBatteryDrain >= TenSeconds /\ b.batteryPercent > 0
    THEN [lastBatteryDrain |-> currentTime, batteryPercent |-> b.batteryPercent - 1]
    ELSE b

ClockRec   == [lastSecondTime |-> lastSecondTime, seconds |-> seconds,
               minutes |-> minutes, hours |-> hours]
BatteryRec == [lastBatteryDrain |-> lastBatteryDrain, batteryPercent |-> batteryPercent]

SetClock(c) ==
    /\ lastSecondTime' = c.lastSecondTime
    /\ seconds' = c.seconds
    /\ minutes' = c.minutes
    /\ hours' = c.hours

SetBattery(b) ==
    /\ lastBatteryDrain' = b.lastBatteryDrain
    /\ batteryPercent' = b.batteryPercent

----------------------------------------------------------------------------
(* Fixed-point arithmetic standing for the code's float arithmetic *)

Min(a, b) == IF a < b THEN a ELSE b
Max(a, b) == IF a > b THEN a ELSE b
Abs(a)    == IF a < 0 THEN 0 - a ELSE a

(* a / b rounded to the nearest unit, b > 0 *)
RoundDiv(a, b) ==
    IF a >= 0 THEN (2 * a + b) \div (2 * b) ELSE 0 - ((2 * (0 - a) + b) \div (2 * b))

(* a / b rounded toward zero, b > 0 *)
TruncDiv(a, b) == IF a >= 0 THEN a \div b ELSE 0 - ((0 - a) \div b)

(* sin of x thousandths of a radian (x >= 0), in thousandths *)
SinMilli(x) ==
    LET xr   == x % (2 * PiMilli)
        half == IF xr <= PiMilli THEN xr ELSE xr - PiMilli
        p    == half * (PiMilli - half)
        mag  == (16 * p) \div ((5 * PiMilli * PiMilli - 4 * p) \div 1000)
    IN  IF xr <= PiMilli THEN mag ELSE 0 - mag

(* 60.0f / bpm: a number of thousandths, or +inf when bpm is 0 *)
targetScale(b) ==
    IF b = 0 THEN <<"inf", 0>>
    ELSE IF b > 0 THEN <<"num", RoundDiv(60000000, b)>>
    ELSE <<"num", 0 - RoundDiv(60000000, 0 - b)>>

(* ekgScale += (targetScale - ekgScale) * 2.0f * dt, with IEEE infinities *)
scaleStep(cur, ts, k) ==
    CASE cur[1] = "num" /\ ts[1] = "num" ->
             <<"num", cur[2] + RoundDiv((ts[2] - cur[2]) * 2 * k, 60)>>
      [] cur[1] = "num" /\ ts[1] = "inf" -> <<"inf", 0>>
      [] OTHER -> <<"nan", 0>>

(* updateHeartRate with targetBpm rising by 20 per second *)
updateHeartRateSlowRise(k, running, r, h) ==
    LET t1 == IF running
              THEN Min(h.targetBpm + RoundDiv(20000 * k, 60), MaxBpm)
              ELSE Max(h.targetBpm - RoundDiv(20000 * k, 60), RestBpm + 1000 * r)
        b1 == h.bpm + RoundDiv((t1 - h.bpm) * 2 * k, 60)
        o0 == h.ekgOffset + RoundDiv(b1 * k, 7200)
        o1 == IF o0 > 1000 THEN o0 - 1000 ELSE o0
    IN  [targetBpm |-> t1, bpm |-> b1, ekgOffset |-> o1,
         ekgScale |-> scaleStep(h.ekgScale, targetScale(b1), k)]

(* k is deltaTime in sixtieths of a second, r is rand() % 20 *)
updateHeartRate(k, running, r, h) ==
    LET t1 == IF running
              THEN Min(h.targetBpm + 500 * k, MaxBpm)
              ELSE Max(h.targetBpm - RoundDiv(20000 * k, 60), RestBpm + 1000 * r)
        b1 == h.bpm + RoundDiv((t1 - h.bpm) * 2 * k, 60)
        o0 == h.ekgOffset + RoundDiv(b1 * k, 7200)
        o1 == IF o0 > 1000 THEN o0 - 1000 ELSE o0
    IN  [targetBpm |-> t1, bpm |-> b1, ekgOffset |-> o1,
         ekgScale |-> scaleStep(h.ekgScale, targetScale(b1), k)]

updateRunning(k, running, screen, rn) ==
    IF running /\ screen = 1
    THEN LET rt == rn.runTime + RoundDiv(8000 * k, 60)
             go == rn.groundOffset + RoundDiv(8000 * k, 60)
         IN  [runTime |-> rt,
              cameraBobOffset |-> RoundDiv(SinMilli(rt) * 5, 10),
              groundOffset |-> IF go > GroundSegmentLength
                               THEN go - GroundSegmentLength ELSE go]
    ELSE [runTime |-> rn.runTime,
          cameraBobOffset |-> TruncDiv(rn.cameraBobOffset * 9, 10),
          groundOffset |-> rn.groundOffset]

HeartRec == [targetBpm |-> targetBpm, bpm |-> bpm, ekgOffset |-> ekgOffset,
             ekgScale |-> ekgScale]
RunRec   == [runTime |-> runTime, cameraBobOffset |-> cameraBobOffset,
             groundOffset |-> groundOffset]

SetHeart(h) ==
    /\ targetBpm' = h.targetBpm
    /\ bpm' = h.bpm
    /\ ekgOffset' = h.ekgOffset
    /\ ekgScale' = h.ekgScale

SetRun(rn) ==
    /\ runTime' = rn.runTime
    /\ cameraBobOffset' = rn.cameraBobOffset
    /\ groundOffset' = rn.groundOffset

(* The globals the four update functions of main's loop work on *)
WorldRec == [clock |-> ClockRec, heart |-> HeartRec, battery |-> BatteryRec,
             run |-> RunRec]

UpdateNames == {"updateClock", "updateHeartRate", "updateBattery", "updateRunning"}

(* the order of main *)
SourceOrder == <<"updateClock", "updateHeartRate", "updateBattery", "updateRunning">>

UpdateOrders ==
    { o \in [1..4 -> UpdateNames] : \A i, j \in 1..4 : i # j => o[i] # o[j] }

(* one update with the stride of updateRunning following the heart rate *)
applyUpdateCoupled(u, w, currentTime, k, running, screen, r) ==
    CASE u = "updateClock"     -> [w EXCEPT !.clock = updateClock(currentTime, w.clock)]
      [] u = "updateHeartRate" -> [w EXCEPT !.heart = updateHeartRate(k, running, r, w.heart)]
      [] u = "updateBattery"   -> [w EXCEPT !.battery = updateBattery(currentTime, w.battery)]
      [] OTHER -> [w EXCEPT !.run = updateRunning((k * w.heart.bpm) \div StartBpm,
                                                 running, screen, w.run)]

(* one update function applied to the globals *)
applyUpdate(u, w, currentTime, k, running, screen, r) ==
    CASE u = "updateClock"     -> [w EXCEPT !.clock = updateClock(currentTime, w.clock)]
      [] u = "updateHeartRate" -> [w EXCEPT !.heart = updateHeartRate(k, running, r, w.heart)]
      [] u = "updateBattery"   -> [w EXCEPT !.battery = updateBattery(currentTime, w.battery)]
      [] OTHER -> [w EXCEPT !.run = updateRunning(k, running, screen, w.run)]

(* the updates of order o from position i on *)
RECURSIVE applyUpdates(_, _, _, _, _, _, _, _)
applyUpdates(o, i, w, currentTime, k, running, screen, r) ==
    IF i > Len(o) THEN w
    ELSE applyUpdates(o, i + 1, applyUpdate(o[i], w, currentTime, k, running, screen, r),
                      currentTime, k, running, screen, r)

(* history of the current hold of the run key, after a step of k sixtieths *)
SetHold(k, running) ==
    /\ holdTime' = IF running
                   THEN Min((IF isRunning THEN holdTime ELSE 0) + k, HoldSeconds)
                   ELSE 0
    /\ holdBad' = IF running
                  THEN \/ (isRunning /\ holdBad)
                       \/ (bpm' <= bpm /\ bpm < MaxBpm - BpmEpsilon)
                  ELSE FALSE

(* Building positions and the two wrap loops of renderScene; each loop     *)
(* returns the wrapped z and the number of iterations it ran               *)

WrapSpan == NumGroundSegments * GroundSegmentLength

(* z of building i of a side, j is its rand() % 10 *)
BuildingZ(i, j) == 0 - BuildingNearZ - i * BuildingSpacing - j * 500

RECURSIVE wrapNear(_, _)
(* one test where the source loops *)
wrapNearOnce(z, n) == IF z > BuildingNearZ THEN <<z - WrapSpan, n + 1>> ELSE <<z, n>>
wrapNear(z, n) == IF z > BuildingNearZ THEN wrapNear(z - WrapSpan, n + 1) ELSE <<z, n>>

RECURSIVE wrapFar(_, _)
wrapFar(z, n) == IF z < 0 - WrapSpan THEN wrapFar(z + WrapSpan, n + 1) ELSE <<z, n>>

(* the z renderScene draws a building at, with the two iteration counts *)
DrawnZ(z, offset) ==
    LET a == wrapNear(z + offset, 0)
        b == wrapFar(a[1], 0)
    IN  [z |-> b[1], near |-> a[2], far |-> b[2]]

Buildings == { BuildingZ(i, j) : i \in 0..(NumBuildingsPerSide - 1), j \in 0..9 }

(* a 10 s boundary (counted from StartTime) lies strictly between t0 and t1 *)
StepsOverBoundary(t0, t1) ==
    \E k \in 1..(MaxBatterySec \div 10 + 1) :
        /\ t0 < StartTime + k * TenSeconds
        /\ StartTime + k * TenSeconds < t1

----------------------------------------------------------------------------
(* Watch UI pass: hit-testing and navigation *)

normMouseX(mx) == (2000 * mx) \div screenWidth - 1000
normMouseY(my) == 0 - ((2000 * my) \div screenHeight - 1000)

isPointInRect(px, py, rx, ry, rw, rh) ==
    px >= rx - rw /\ px <= rx + rw /\ py >= ry - rh /\ py <= ry + rh

InRightArrow(mx, my) ==
    isPointInRect(normMouseX(mx), normMouseY(my), ArrowX, 0, ArrowSize, ArrowSize)
InLeftArrow(mx, my) ==
    isPointInRect(normMouseX(mx), normMouseY(my), 0 - ArrowX, 0, ArrowSize, ArrowSize)

drawClockScreen(screen, mode, clicked, mx, my) ==
    IF mode /\ clicked /\ InRightArrow(mx, my) THEN 1 ELSE screen

drawHeartRateScreen(screen, mode, clicked, mx, my) ==
    IF mode /\ clicked
    THEN LET afterLeft == IF InLeftArrow(mx, my) THEN 0 ELSE screen
         IN  IF InRightArrow(mx, my) THEN 2 ELSE afterLeft
    ELSE screen

(* drawBatteryScreen whose left arrow leads to the clock screen *)
drawBatteryScreenToClock(screen, mode, clicked, mx, my) ==
    IF mode /\ clicked /\ InLeftArrow(mx, my) THEN 0 ELSE screen

drawBatteryScreen(screen, mode, clicked, mx, my) ==
    IF mode /\ clicked /\ InLeftArrow(mx, my) THEN 1 ELSE screen

renderWatchScreen(screen, mode, clicked, mx, my) ==
    CASE screen = 0 -> drawClockScreen(screen, mode, clicked, mx, my)
      [] screen = 1 -> drawHeartRateScreen(screen, mode, clicked, mx, my)
      [] screen = 2 -> drawBatteryScreen(screen, mode, clicked, mx, my)
      [] OTHER      -> screen

(* the navigation hot-rects of a screen *)
InHotRect(screen, mx, my) ==
    CASE screen = 0 -> InRightArrow(mx, my)
      [] screen = 1 -> InLeftArrow(mx, my) \/ InRightArrow(mx, my)
      [] screen = 2 -> InLeftArrow(mx, my)
      [] OTHER      -> FALSE

clamp(x, lo, hi) == IF x < lo THEN lo ELSE IF x > hi THEN hi ELSE x

----------------------------------------------------------------------------
(* Initial state: the globals' initializers and main's timer setup *)

----------------------------------------------------------------------------
(* The cube of createCubeVAO: position in halves of a unit, then normal *)

CubeVertices == <<
    (* back (-Z) *)
    <<<<0 - 1, 0 - 1, 0 - 1>>, <<0, 0, 0 - 1>>>>,
    <<<<1, 0 - 1, 0 - 1>>, <<0, 0, 0 - 1>>>>,
    <<<<1, 1, 0 - 1>>, <<0, 0, 0 - 1>>>>,
    <<<<1, 1, 0 - 1>>, <<0, 0, 0 - 1>>>>,
    <<<<0 - 1, 1, 0 - 1>>, <<0, 0, 0 - 1>>>>,
    <<<<0 - 1, 0 - 1, 0 - 1>>, <<0, 0, 0 - 1>>>>,
    (* front (+Z) *)
    <<<<0 - 1, 0 - 1, 1>>, <<0, 0, 1>>>>,
    <<<<1, 0 - 1, 1>>, <<0, 0, 1>>>>,
    <<<<1, 1, 1>>, <<0, 0, 1>>>>,
    <<<<1, 1, 1>>, <<0, 0, 1>>>>,
    <<<<0 - 1, 1, 1>>, <<0, 0, 1>>>>,
    <<<<0 - 1, 0 - 1, 1>>, <<0, 0, 1>>>>,
    (* left (-X) *)
    <<<<0 - 1, 0 - 1, 0 - 1>>, <<0 - 1, 0, 0>>>>,
    <<<<0 - 1, 0 - 1, 1>>, <<0 - 1, 0, 0>>>>,
    <<<<0 - 1, 1, 1>>, <<0 - 1, 0, 0>>>>,
    <<<<0 - 1, 1, 1>>, <<0 - 1, 0, 0>>>>,
    <<<<0 - 1, 1, 0 - 1>>, <<0 - 1, 0, 0>>>>,
    <<<<0 - 1, 0 - 1, 0 - 1>>, <<0 - 1, 0, 0>>>>,
    (* right (+X) *)
    <<<<1, 0 - 1, 1>>, <<1, 0, 0>>>>,
    <<<<1, 0 - 1, 0 - 1>>, <<1, 0, 0>>>>,
    <<<<1, 1, 0 - 1>>, <<1, 0, 0>>>>,
    <<<<1, 1, 0 - 1>>, <<1, 0, 0>>>>,
    <<<<1, 1, 1>>, <<1, 0, 0>>>>,
    <<<<1, 0 - 1, 1>>, <<1, 0, 0>>>>,
    (* bottom (-Y) *)
    <<<<0 - 1, 0 - 1, 0 - 1>>, <<0, 0 - 1, 0>>>>,
    <<<<1, 0 - 1, 0 - 1>>, <<0, 0 - 1, 0>>>>,
    <<<<1, 0 - 1, 1>>, <<0, 0 - 1, 0>>>>,
    <<<<1, 0 - 1, 1>>, <<0, 0 - 1, 0>>>>,
    <<<<0 - 1, 0 - 1, 1>>, <<0, 0 - 1, 0>>>>,
    <<<<0 - 1, 0 - 1, 0 - 1>>, <<0, 0 - 1, 0>>>>,
    (* top (+Y) *)
    <<<<0 - 1, 1, 0 - 1>>, <<0, 1, 0>>>>,
    <<<<1, 1, 0 - 1>>, <<0, 1, 0>>>>,
    <<<<1, 1, 1>>, <<0, 1, 0>>>>,
    <<<<1, 1, 1>>, <<0, 1, 0>>>>,
    <<<<0 - 1, 1, 1>>, <<0, 1, 0>>>>,
    <<<<0 - 1, 1, 0 - 1>>, <<0, 1, 0>>>>
>>

Sub(a, b)   == <<a[1] - b[1], a[2] - b[2], a[3] - b[3]>>
Cross(a, b) == <<a[2] * b[3] - a[3] * b[2],
                 a[3] * b[1] - a[1] * b[3],
                 a[1] * b[2] - a[2] * b[1]>>
Dot(a, b)   == a[1] * b[1] + a[2] * b[2] + a[3] * b[3]

CubeTriangles == 1..(Len(CubeVertices) \div 3)

(* (v1 - v0) x (v2 - v0) of triangle t *)
FaceCross(t) ==
    LET v0 == CubeVertices[3 * t - 2][1]
        v1 == CubeVertices[3 * t - 1][1]
        v2 == CubeVertices[3 * t][1]
    IN  Cross(Sub(v1, v0), Sub(v2, v0))

(* triangle t is counter-clockwise seen from the side its normal points to *)
WoundCCW(t) == Dot(FaceCross(t), CubeVertices[3 * t - 2][2]) > 0

(* triangles glCullFace(GL_BACK) with glFrontFace(GL_CCW) removes for a *)
(* viewer outside the cube                                             *)
CulledOutwardFaces(culling) ==
    IF culling THEN { t \in CubeTriangles : ~WoundCCW(t) } ELSE {}

----------------------------------------------------------------------------
(* GL objects and render targets *)

StartupTextures == {"groundTexture", "roadTexture", "buildingTexture", "ekgTexture",
                    "arrowRightTexture", "arrowLeftTexture", "heartCursorTexture",
                    "studentInfoTexture"}
VertexArrays    == {"VAOground", "VAOcube", "VAOwatchQuad", "VAOscreenQuad"}
VertexBuffers   == {"ground.VBO", "ground.EBO", "cube.VBO", "watchQuad.VBO",
                    "watchQuad.EBO", "screenQuad.VBO", "screenQuad.EBO"}
Programs        == {"basicShader", "screenShader"}

(* what main has created when the loop starts *)
StartupObjects ==
    StartupTextures \cup VertexArrays \cup VertexBuffers \cup Programs
        \cup {"watchFBO", "watchScreenTexture"}

(* the glDelete* calls after the loop *)
TeardownDeletes ==
    StartupTextures \cup {"watchScreenTexture", "watchFBO"} \cup VertexArrays
        \cup Programs

(* the static digit texture a screen's draw function keeps *)
DigitTexture(screen) ==
    CASE screen = 0 -> "timeTexture"
      [] screen = 1 -> "bpmTexture"
      [] OTHER      -> "percTexture"

(* textures sampled by the draws of the UI pass *)
UITextures(screen, mode) ==
    (CASE screen = 0 -> {"timeTexture", "arrowRightTexture"}
       [] screen = 1 -> {"arrowLeftTexture", "arrowRightTexture", "ekgTexture",
                         "bpmTexture"}
       [] OTHER      -> {"arrowLeftTexture", "percTexture"})
    \cup (IF mode THEN {"heartCursorTexture"} ELSE {})

SceneTextures   == {"groundTexture", "roadTexture", "buildingTexture",
                    "watchScreenTexture"}
OverlayTextures == {"studentInfoTexture"}

(* a stage drawing with framebuffer fb bound *)
Writers(stage, fb, w) == IF fb = "watchFBO" THEN w \cup {stage} ELSE w
(* a stage drawing with these textures *)
Readers(stage, textures, rd) ==
    IF "watchScreenTexture" \in textures THEN rd \cup {stage} ELSE rd

Repeat(c, n) == [i \in 1..n |-> c]

(* renderScene with the emissive flag left set after the watch screen quad *)
SceneCommandsNoReset ==
    <<<<"uIsEmissive", 0>>>>
    \o Repeat(<<"draw", "ground">>, NumGroundSegments)
    \o Repeat(<<"draw", "road">>, NumGroundSegments)
    \o Repeat(<<"draw", "building">>, 2 * NumBuildingsPerSide)
    \o <<<<"draw", "hand">>, <<"draw", "bezel">>,
         <<"uIsEmissive", 1>>, <<"draw", "watchScreen">>>>

(* renderScene: the setInt(uIsEmissive) and glDraw* calls, in program order *)
SceneCommands ==
    <<<<"uIsEmissive", 0>>>>
    \o Repeat(<<"draw", "ground">>, NumGroundSegments)
    \o Repeat(<<"draw", "road">>, NumGroundSegments)
    \o Repeat(<<"draw", "building">>, 2 * NumBuildingsPerSide)
    \o <<<<"draw", "hand">>, <<"draw", "bezel">>,
         <<"uIsEmissive", 1>>, <<"draw", "watchScreen">>,
         <<"uIsEmissive", 0>>>>

(* the GL state machine: a draw call uses the uniform value current when it is issued *)
RECURSIVE runScene(_, _, _, _)
runScene(cmds, i, flag, draws) ==
    IF i > Len(cmds) THEN [uIsEmissive |-> flag, sceneDraws |-> draws]
    ELSE IF cmds[i][1] = "draw"
         THEN runScene(cmds, i + 1, flag, Append(draws, <<cmds[i][2], flag>>))
         ELSE runScene(cmds, i + 1, cmds[i][2], draws)

DigitChars == <<"0", "1", "2", "3", "4", "5", "6", "7", "8", "9">>

Char(d) == DigitChars[d + 1]

(* the decimal digits of n >= 0 *)
RECURSIVE Decimal(_)
Decimal(n) == IF n < 10 THEN <<Char(n)>> ELSE Append(Decimal(n \div 10), Char(n % 10))

ZeroPad(str, width) ==
    IF Len(str) >= width THEN str ELSE Repeat("0", width - Len(str)) \o str

(* snprintf "%0<width>d": the sign counts toward the width *)
Format0d(n, width) ==
    IF n < 0 THEN <<"-">> \o ZeroPad(Decimal(0 - n), width - 1)
    ELSE ZeroPad(Decimal(n), width)

(* snprintf "%02d:%02d:%02d" *)
FormatTime(h, m, s) ==
    Format0d(h, 2) \o <<":">> \o Format0d(m, 2) \o <<":">> \o Format0d(s, 2)

(* (int)bpm *)
IntOf(b) == TruncDiv(b, 1000)

(* texture handle 0 *)
NoTexture == <<>>

(* createDigitTexture: one cell per character; ':' and the digits have a
   glyph (the ten segment patterns are pairwise distinct), any other
   character leaves its cell blank *)
createDigitTexture(digitStr) ==
    [i \in 1..Len(digitStr) |->
        IF digitStr[i] = ":" \/ \E d \in 0..9 : digitStr[i] = Char(d)
        THEN digitStr[i] ELSE " "]

(* if (tex != 0) glDeleteTextures(1, &tex); tex = createDigitTexture(str); *)
regenerate(d, tex, str) ==
    [d EXCEPT ![tex] = createDigitTexture(str),
              !.live[tex] = (IF d[tex] # NoTexture THEN @ - 1 ELSE @) + 1]

(* drawClockScreen, digit part *)
drawClockDigits(d, h, m, s) ==
    LET timeStr == FormatTime(h, m, s)
        stale   == timeStr # d.lastTimeStr
        d2      == IF stale
                   THEN [regenerate(d, "timeTexture", timeStr) EXCEPT !.lastTimeStr = timeStr]
                   ELSE d
    IN  [digits |-> d2, generated |-> stale, drawn |-> d2.timeTexture, value |-> timeStr]

(* drawHeartRateScreen, digit part *)
drawBpmDigits(d, b) ==
    LET bpmStr == Format0d(IntOf(b), 3)
        stale  == IntOf(b) # d.lastBpm
        d2     == IF stale
                  THEN [regenerate(d, "bpmTexture", bpmStr) EXCEPT !.lastBpm = IntOf(b)]
                  ELSE d
    IN  [digits |-> d2, generated |-> stale, drawn |-> d2.bpmTexture, value |-> bpmStr]

(* drawBatteryScreen, digit part *)
drawPercDigits(d, p) ==
    LET percStr == Format0d(p, 3)
        stale   == p # d.lastPerc
        d2      == IF stale
                   THEN [regenerate(d, "percTexture", percStr) EXCEPT !.lastPerc = p]
                   ELSE d
    IN  [digits |-> d2, generated |-> stale, drawn |-> d2.percTexture, value |-> percStr]

(* the digit part of the draw function renderWatchScreen dispatches to *)
drawDigits(screen, d, h, m, s, b, p) ==
    CASE screen = 0 -> drawClockDigits(d, h, m, s)
      [] screen = 1 -> drawBpmDigits(d, b)
      [] OTHER      -> drawPercDigits(d, p)

(* the string a digit texture was last generated for: none without a texture *)
GeneratedFor(screen, d) ==
    IF d[DigitTexture(screen)] = NoTexture THEN NoTexture
    ELSE CASE screen = 0 -> d.lastTimeStr
           [] screen = 1 -> Format0d(d.lastBpm, 3)
           [] OTHER      -> Format0d(d.lastPerc, 3)

NoPass == [generated |-> FALSE, drawn |-> NoTexture, value |-> NoTexture, before |-> NoTexture]

(* what a UI pass on `screen` that found the statics d and returned ui did *)
PassRecord(screen, d, ui) ==
    [generated |-> ui.generated, drawn |-> ui.drawn, value |-> ui.value,
     before |-> GeneratedFor(screen, d)]

InitDigits ==
    /\ digits = [timeTexture |-> NoTexture, lastTimeStr |-> <<>>,
                 bpmTexture  |-> NoTexture, lastBpm |-> 0,
                 percTexture |-> NoTexture, lastPerc |-> 0 - 1,
                 live |-> [t \in {"timeTexture", "bpmTexture", "percTexture"} |-> 0]]
    /\ uiDigits = NoPass

InitGL ==
    /\ boundFramebuffer = "default"
    /\ glLive = StartupObjects
    /\ fboWriters = {}
    /\ texReaders = {}
    /\ uIsEmissive = 0
    /\ sceneDraws = <<>>
    /\ InitDigits

InitInputAt(screen) ==
    /\ currentScreen = screen
    /\ isRunning = FALSE
    /\ watchViewMode = FALSE
    /\ mouseX = 0 /\ mouseY = 0 /\ lastMouseY = 0
    /\ firstMouse = TRUE
    /\ mouseClicked = FALSE
    /\ cameraBasePitch = 0
    /\ depthTestEnabled = TRUE
    /\ faceCullingEnabled = TRUE
    /\ windowShouldClose = FALSE
    /\ keyD = FALSE
    /\ polled = 0
    /\ clicksQueued = 0 /\ clickInRect = FALSE /\ clickInMode = FALSE
    /\ clickAge = 0 /\ navCount = 0

InitInput == InitInputAt(0)

InitSim ==
    /\ bpm = StartBpm /\ targetBpm = StartBpm
    /\ ekgOffset = 0
    /\ ekgScale = <<"num", 1000>>
    /\ runTime = 0 /\ groundOffset = 0 /\ cameraBobOffset = 0
    /\ steps = 0 /\ holdTime = 0 /\ holdBad = FALSE

InitTimers ==
    /\ lastTime = StartTime
    /\ lastSecondTime = StartTime
    /\ lastBatteryDrain = StartTime
    /\ batteryPercent = FullBattery
    /\ jumped = FALSE

Init ==
    /\ InitInput
    /\ InitTimers
    /\ InitSim
    /\ InitGL
    /\ hours = 23 /\ minutes = 59 /\ seconds = 59
    /\ pc = "loop"

----------------------------------------------------------------------------
(* The frame loop of main *)

(* while condition true: timing, running state and the four updates *)
(* a loop body entered without testing glfwWindowShouldClose *)
FrameUpdateIgnoresClose ==
    /\ pc = "loop"
    /\ \E dt \in 1..MaxFrameDt, r \in FrameRands :
         LET currentTime == lastTime + dt
             k == dt * SixtiethsPerTick
         IN
         /\ currentTime <= MaxFrameTime
         /\ lastTime' = currentTime
         /\ isRunning' = (keyD /\ currentScreen = 1)
         /\ SetClock(updateClock(currentTime, ClockRec))
         /\ SetHeart(updateHeartRate(k, isRunning', r, HeartRec))
         /\ SetBattery(updateBattery(currentTime, BatteryRec))
         /\ SetRun(updateRunning(k, isRunning', currentScreen, RunRec))
         /\ SetHold(k, isRunning')
         /\ jumped' = (jumped \/ StepsOverBoundary(lastTime, currentTime))
    /\ fboWriters' = {}
    /\ texReaders' = {}
    /\ pc' = "ui"
    /\ UNCHANGED <<currentScreen, inputVars, polled, histVars, steps, boundFramebuffer, glLive,
                   sceneVars, digitVars>>

FrameUpdate ==
    /\ pc = "loop"
    /\ ~windowShouldClose
    /\ \E dt \in 1..MaxFrameDt, r \in FrameRands :
         LET currentTime == lastTime + dt
             k == dt * SixtiethsPerTick
         IN
         /\ currentTime <= MaxFrameTime
         /\ lastTime' = currentTime
         /\ isRunning' = (keyD /\ currentScreen = 1)
         /\ SetClock(updateClock(currentTime, ClockRec))
         /\ SetHeart(updateHeartRate(k, isRunning', r, HeartRec))
         /\ SetBattery(updateBattery(currentTime, BatteryRec))
         /\ SetRun(updateRunning(k, isRunning', currentScreen, RunRec))
         /\ SetHold(k, isRunning')
         /\ jumped' = (jumped \/ StepsOverBoundary(lastTime, currentTime))
    /\ fboWriters' = {}
    /\ texReaders' = {}
    /\ pc' = "ui"
    /\ UNCHANGED <<currentScreen, inputVars, polled, histVars, steps, boundFramebuffer, glLive,
                   sceneVars, digitVars>>

(* renderWatchScreen drawing without binding watchFBO *)
UIPassUnbound ==
    /\ pc = "ui"
    /\ currentScreen' = renderWatchScreen(currentScreen, watchViewMode, mouseClicked,
                                          mouseX, mouseY)
    /\ clickAge' = IF mouseClicked THEN clamp(clickAge + 1, 0, 2) ELSE clickAge
    /\ navCount' = IF currentScreen' # currentScreen
                   THEN clamp(navCount + 1, 0, 2) ELSE navCount
    /\ LET fb == boundFramebuffer IN
         /\ fboWriters' = Writers("ui", fb, fboWriters)
         /\ texReaders' = Readers("ui", UITextures(currentScreen, watchViewMode),
                                  texReaders)
    /\ LET ui == drawDigits(currentScreen, digits, hours, minutes, seconds, bpm,
                            batteryPercent) IN
         /\ digits' = ui.digits
         /\ uiDigits' = PassRecord(currentScreen, digits, ui)
         /\ glLive' = glLive \cup (IF ui.drawn # NoTexture
                                   THEN {DigitTexture(currentScreen)} ELSE {})
    /\ boundFramebuffer' = "default"
    /\ pc' = "scene"
    /\ UNCHANGED <<clockVars, batteryVars, lastTime, isRunning, inputVars, polled,
                   clicksQueued, clickInRect, clickInMode, jumped, simVars, sceneVars>>

(* renderWatchScreen advancing the EKG strip while drawing it *)
UIPassScrollsEkg ==
    /\ pc = "ui"
    /\ currentScreen' = renderWatchScreen(currentScreen, watchViewMode, mouseClicked,
                                          mouseX, mouseY)
    /\ clickAge' = IF mouseClicked THEN clamp(clickAge + 1, 0, 2) ELSE clickAge
    /\ navCount' = IF currentScreen' # currentScreen
                   THEN clamp(navCount + 1, 0, 2) ELSE navCount
    /\ LET fb == "watchFBO" IN
         /\ fboWriters' = Writers("ui", fb, fboWriters)
         /\ texReaders' = Readers("ui", UITextures(currentScreen, watchViewMode),
                                  texReaders)
    /\ LET ui == drawDigits(currentScreen, digits, hours, minutes, seconds, bpm,
                            batteryPercent) IN
         /\ digits' = ui.digits
         /\ uiDigits' = PassRecord(currentScreen, digits, ui)
         /\ glLive' = glLive \cup (IF ui.drawn # NoTexture
                                   THEN {DigitTexture(currentScreen)} ELSE {})
    /\ boundFramebuffer' = "default"
    /\ ekgOffset' = (ekgOffset + 1) % 1000
    /\ pc' = "scene"
    /\ UNCHANGED <<clockVars, batteryVars, lastTime, isRunning, inputVars, polled,
                   clicksQueued, clickInRect, clickInMode, jumped, bpm, targetBpm, ekgScale,
                   runVars, simHist, sceneVars>>

(* renderWatchScreen *)
UIPass ==
    /\ pc = "ui"
    /\ currentScreen' = renderWatchScreen(currentScreen, watchViewMode, mouseClicked,
                                          mouseX, mouseY)
    /\ clickAge' = IF mouseClicked THEN clamp(clickAge + 1, 0, 2) ELSE clickAge
    /\ navCount' = IF currentScreen' # currentScreen
                   THEN clamp(navCount + 1, 0, 2) ELSE navCount
    /\ LET fb == "watchFBO" IN
         /\ fboWriters' = Writers("ui", fb, fboWriters)
         /\ texReaders' = Readers("ui", UITextures(currentScreen, watchViewMode),
                                  texReaders)
    /\ LET ui == drawDigits(currentScreen, digits, hours, minutes, seconds, bpm,
                            batteryPercent) IN
         /\ digits' = ui.digits
         /\ uiDigits' = PassRecord(currentScreen, digits, ui)
         /\ glLive' = glLive \cup (IF ui.drawn # NoTexture
                                   THEN {DigitTexture(currentScreen)} ELSE {})
    /\ boundFramebuffer' = "default"
    /\ pc' = "scene"
    /\ UNCHANGED <<clockVars, batteryVars, lastTime, isRunning, inputVars, polled,
                   clicksQueued, clickInRect, clickInMode, jumped, simVars, sceneVars>>

(* renderScene and renderStudentInfo *)
ScenePass ==
    /\ pc = "scene"
    /\ LET fb == "default" IN
         /\ boundFramebuffer' = fb
         /\ fboWriters' = Writers("overlay", fb, Writers("scene", fb, fboWriters))
         /\ texReaders' = Readers("overlay", OverlayTextures,
                                  Readers("scene", SceneTextures, texReaders))
    /\ LET gl == runScene(SceneCommands, 1, uIsEmissive, <<>>) IN
         /\ uIsEmissive' = gl.uIsEmissive
         /\ sceneDraws' = gl.sceneDraws
    /\ uiDigits' = NoPass
    /\ pc' = "reset"
    /\ UNCHANGED <<currentScreen, clockVars, batteryVars, lastTime, isRunning,
                   inputVars, polled, histVars, jumped, simVars, glLive, digits>>

(* the end of a frame without mouseClicked = false *)
ResetClickSkipped ==
    /\ pc = "reset"
    /\ pc' = "poll"
    /\ polled' = 0
    /\ clicksQueued' = 0
    /\ clickInRect' = FALSE
    /\ clickInMode' = FALSE
    /\ sceneDraws' = <<>>
    /\ UNCHANGED <<currentScreen, clockVars, batteryVars, lastTime, isRunning,
                   watchViewMode, mouseX, mouseY, lastMouseY, firstMouse,
                   mouseClicked, cameraBasePitch, depthTestEnabled,
                   faceCullingEnabled, windowShouldClose, keyD, clickAge,
                   navCount, jumped, simVars, boundFramebuffer, glLive, fboWriters,
                   texReaders, uIsEmissive, digitVars>>

(* the end of a frame that resets mouseClicked only after a screen change *)
ResetClickOnlyAfterNav ==
    /\ pc = "reset"
    /\ mouseClicked' = IF navCount > 0 THEN FALSE ELSE mouseClicked
    /\ pc' = "poll"
    /\ polled' = 0
    /\ clicksQueued' = 0
    /\ clickInRect' = FALSE
    /\ clickInMode' = FALSE
    /\ sceneDraws' = <<>>
    /\ UNCHANGED <<currentScreen, clockVars, batteryVars, lastTime, isRunning,
                   watchViewMode, mouseX, mouseY, lastMouseY, firstMouse,
                   cameraBasePitch, depthTestEnabled, faceCullingEnabled,
                   windowShouldClose, keyD, clickAge, navCount, jumped, simVars,
                   boundFramebuffer, glLive, fboWriters, texReaders, uIsEmissive,
                   digitVars>>

(* mouseClicked = false; glfwSwapBuffers; entry into glfwPollEvents *)
ResetClick ==
    /\ pc = "reset"
    /\ mouseClicked' = FALSE
    /\ pc' = "poll"
    /\ polled' = 0
    /\ clicksQueued' = 0
    /\ clickInRect' = FALSE
    /\ clickInMode' = FALSE
    /\ sceneDraws' = <<>>
    /\ UNCHANGED <<currentScreen, clockVars, batteryVars, lastTime, isRunning,
                   watchViewMode, mouseX, mouseY, lastMouseY, firstMouse,
                   cameraBasePitch, depthTestEnabled, faceCullingEnabled,
                   windowShouldClose, keyD, clickAge, navCount, jumped, simVars,
                   boundFramebuffer, glLive, fboWriters, texReaders, uIsEmissive,
                   digitVars>>

(* glfwPollEvents returns *)
EndPoll ==
    /\ pc = "poll"
    /\ pc' = "loop"
    /\ UNCHANGED <<currentScreen, clockVars, batteryVars, lastTime, isRunning,
                   inputVars, polled, histVars, jumped, simVars, glVars>>

(* while condition false: cleanup and return *)
ExitLoop ==
    /\ pc = "loop"
    /\ windowShouldClose
    /\ pc' = "done"
    /\ glLive' = glLive \ TeardownDeletes
    /\ UNCHANGED <<currentScreen, clockVars, batteryVars, lastTime, isRunning,
                   inputVars, polled, histVars, jumped, simVars, boundFramebuffer,
                   fboWriters, texReaders, sceneVars, digitVars>>

----------------------------------------------------------------------------
(* Events delivered inside glfwPollEvents *)

(* events delivered during the scene pass as well *)
DeliveringDuringScene ==
    /\ pc \in {"scene", "poll"}
    /\ polled < MaxEvents
    /\ polled' = polled + 1
    /\ pc' = pc

Delivering ==
    /\ pc = "poll"
    /\ polled < MaxEvents
    /\ polled' = polled + 1
    /\ pc' = pc

mouse_button_callback ==
    /\ Delivering
    /\ \E left \in BOOLEAN, press \in BOOLEAN :
         IF left /\ press
         THEN /\ mouseClicked' = TRUE
              /\ clicksQueued' = clicksQueued + 1
              /\ clickInRect' = (clickInRect \/ InHotRect(currentScreen, mouseX, mouseY))
              /\ clickInMode' = (clickInMode \/ watchViewMode)
              /\ clickAge' = IF mouseClicked THEN clickAge ELSE 0
              /\ navCount' = IF mouseClicked THEN navCount ELSE 0
         ELSE UNCHANGED <<mouseClicked, histVars>>
    /\ UNCHANGED <<currentScreen, clockVars, batteryVars, lastTime, isRunning,
                   watchViewMode, mouseX, mouseY, lastMouseY, firstMouse,
                   cameraBasePitch, depthTestEnabled, faceCullingEnabled,
                   windowShouldClose, keyD, jumped, simVars, glVars>>

(* cursor_position_callback without the two clamping tests *)
cursor_position_callbackNoClamp ==
    /\ Delivering
    /\ \E xpos \in MouseXs, ypos \in MouseYs :
         LET lastY   == IF firstMouse THEN ypos ELSE lastMouseY
             yoffset == lastY - ypos
         IN  /\ firstMouse' = FALSE
             /\ lastMouseY' = ypos
             /\ cameraBasePitch' =
                    IF ~watchViewMode
                    THEN cameraBasePitch + yoffset
                    ELSE cameraBasePitch
             /\ mouseX' = xpos
             /\ mouseY' = ypos
    /\ UNCHANGED <<currentScreen, clockVars, batteryVars, lastTime, isRunning,
                   watchViewMode, mouseClicked, depthTestEnabled, faceCullingEnabled,
                   windowShouldClose, keyD, histVars, jumped, simVars, glVars>>

(* cursor_position_callback tracking the pointer only outside watch-view mode *)
cursor_position_callbackStaleDelta ==
    /\ Delivering
    /\ \E xpos \in MouseXs, ypos \in MouseYs :
         LET lastY   == IF firstMouse THEN ypos ELSE lastMouseY
             yoffset == lastY - ypos
         IN  /\ firstMouse' = FALSE
             /\ lastMouseY' = IF watchViewMode THEN lastMouseY ELSE ypos
             /\ cameraBasePitch' =
                    IF ~watchViewMode
                    THEN clamp(cameraBasePitch + yoffset, 0 - PitchLimit, PitchLimit)
                    ELSE cameraBasePitch
             /\ mouseX' = xpos
             /\ mouseY' = ypos
    /\ UNCHANGED <<currentScreen, clockVars, batteryVars, lastTime, isRunning,
                   watchViewMode, mouseClicked, depthTestEnabled, faceCullingEnabled,
                   windowShouldClose, keyD, histVars, jumped, simVars, glVars>>

cursor_position_callback ==
    /\ Delivering
    /\ \E xpos \in MouseXs, ypos \in MouseYs :
         LET lastY   == IF firstMouse THEN ypos ELSE lastMouseY
             yoffset == lastY - ypos
         IN  /\ firstMouse' = FALSE
             /\ lastMouseY' = ypos
             /\ cameraBasePitch' =
                    IF ~watchViewMode
                    THEN clamp(cameraBasePitch + yoffset, 0 - PitchLimit, PitchLimit)
                    ELSE cameraBasePitch
             /\ mouseX' = xpos
             /\ mouseY' = ypos
    /\ UNCHANGED <<currentScreen, clockVars, batteryVars, lastTime, isRunning,
                   watchViewMode, mouseClicked, depthTestEnabled, faceCullingEnabled,
                   windowShouldClose, keyD, histVars, jumped, simVars, glVars>>

key_callback ==
    /\ Delivering
    /\ \E key \in {"ESCAPE", "SPACE", "F1", "F2", "D"}, press \in BOOLEAN :
         /\ windowShouldClose' = IF key = "ESCAPE" /\ press THEN TRUE
                                 ELSE windowShouldClose
         /\ watchViewMode' = IF key = "SPACE" /\ press THEN ~watchViewMode
                             ELSE watchViewMode
         /\ depthTestEnabled' = IF key = "F1" /\ press THEN ~depthTestEnabled
                                ELSE depthTestEnabled
         /\ faceCullingEnabled' = IF key = "F2" /\ press THEN ~faceCullingEnabled
                                  ELSE faceCullingEnabled
         /\ keyD' = IF key = "D" THEN press ELSE keyD
    /\ UNCHANGED <<currentScreen, clockVars, batteryVars, lastTime, isRunning,
                   mouseX, mouseY, lastMouseY, firstMouse, mouseClicked,
                   cameraBasePitch, histVars, jumped, simVars, glVars>>

(* the user closes the window *)
WindowClose ==
    /\ Delivering
    /\ windowShouldClose' = TRUE
    /\ UNCHANGED <<currentScreen, clockVars, batteryVars, lastTime, isRunning,
                   watchViewMode, mouseX, mouseY, lastMouseY, firstMouse,
                   mouseClicked, cameraBasePitch, depthTestEnabled,
                   faceCullingEnabled, keyD, histVars, jumped, simVars, glVars>>

Next ==
    \/ FrameUpdate
    \/ UIPass
    \/ ScenePass
    \/ ResetClick
    \/ EndPoll
    \/ ExitLoop
    \/ mouse_button_callback
    \/ cursor_position_callback
    \/ key_callback
    \/ WindowClose

Spec == Init /\ [][Next]_vars

----------------------------------------------------------------------------
(* updateClock alone: calls with arbitrary non-decreasing currentTime *)

InitClock ==
    /\ InitInput
    /\ InitTimers
    /\ InitSim
    /\ InitGL
    /\ \E st \in ClockStarts : hours = st[1] /\ minutes = st[2] /\ seconds = st[3]
    /\ pc = "updateClock"

ClockCall ==
    /\ pc = "updateClock"
    /\ \E dt \in 0..MaxClockDt :
         LET currentTime == lastTime + dt IN
         /\ currentTime <= MaxClockTime
         /\ lastTime' = currentTime
         /\ SetClock(updateClock(currentTime, ClockRec))
    /\ UNCHANGED <<currentScreen, batteryVars, isRunning, inputVars, pc, polled,
                   histVars, jumped, simVars, glVars>>

NextClock == ClockCall

SpecClock == InitClock /\ [][NextClock]_vars

----------------------------------------------------------------------------
(* main's timing and updateBattery alone, over long runs *)

InitBattery ==
    /\ InitInput
    /\ InitTimers
    /\ InitSim
    /\ InitGL
    /\ hours = 23 /\ minutes = 59 /\ seconds = 59
    /\ pc = "updateBattery"

BatteryFrame ==
    /\ pc = "updateBattery"
    /\ \E dt \in BatteryDts :
         LET currentTime == lastTime + dt IN
         /\ currentTime <= StartTime + MaxBatterySec * TicksPerSec
         /\ lastTime' = currentTime
         /\ SetBattery(updateBattery(currentTime, BatteryRec))
         /\ jumped' = (jumped \/ StepsOverBoundary(lastTime, currentTime))
    /\ UNCHANGED <<currentScreen, clockVars, isRunning, inputVars, pc, polled,
                   histVars, simVars, glVars>>

NextBattery == BatteryFrame

SpecBattery == InitBattery /\ [][NextBattery]_vars

----------------------------------------------------------------------------
(* The simulator alone: updateHeartRate and updateRunning on the HeartRate *)
(* screen, with the run key held or released in each frame                 *)

InitSimulator ==
    /\ InitInputAt(1)
    /\ InitTimers
    /\ InitSim
    /\ InitGL
    /\ hours = 23 /\ minutes = 59 /\ seconds = 59
    /\ pc = "simulate"

inputRest == <<watchViewMode, mouseX, mouseY, lastMouseY, firstMouse, mouseClicked,
               cameraBasePitch, depthTestEnabled, faceCullingEnabled,
               windowShouldClose>>

SimStep ==
    /\ pc = "simulate"
    /\ steps < MaxSimSteps
    /\ \E k \in SimDts, key \in BOOLEAN, r \in SimRands :
         /\ keyD' = key
         /\ isRunning' = (key /\ currentScreen = 1)
         /\ SetHeart(updateHeartRate(k, isRunning', r, HeartRec))
         /\ SetRun(updateRunning(k, isRunning', currentScreen, RunRec))
         /\ SetHold(k, isRunning')
    /\ steps' = steps + 1
    /\ UNCHANGED <<currentScreen, clockVars, batteryVars, lastTime, inputRest, pc,
                   polled, histVars, jumped, glVars>>

NextSim == SimStep

SpecSim == InitSimulator /\ [][NextSim]_vars

(* updateRunning alone, with stalled frames *)
GroundStep ==
    /\ pc = "simulate"
    /\ steps < MaxGroundSteps
    /\ \E k \in GroundDts, key \in BOOLEAN :
         /\ keyD' = key
         /\ isRunning' = (key /\ currentScreen = 1)
         /\ SetRun(updateRunning(k, isRunning', currentScreen, RunRec))
    /\ steps' = steps + 1
    /\ UNCHANGED <<currentScreen, clockVars, batteryVars, lastTime, inputRest, pc,
                   polled, histVars, jumped, heartVars, holdTime, holdBad, glVars>>

NextGround == GroundStep

SpecGround == InitSimulator /\ [][NextGround]_vars

(* the run key held on the HeartRate screen through frames of 1/60 s *)
ScenarioStep ==
    /\ pc = "simulate"
    /\ steps < MaxScenarioSteps
    /\ keyD' = TRUE
    /\ isRunning' = (keyD' /\ currentScreen = 1)
    /\ SetHeart(updateHeartRate(1, isRunning', 0, HeartRec))
    /\ SetRun(updateRunning(1, isRunning', currentScreen, RunRec))
    /\ SetHold(1, isRunning')
    /\ steps' = steps + 1
    /\ UNCHANGED <<currentScreen, clockVars, batteryVars, lastTime, inputRest, pc,
                   polled, histVars, jumped, glVars>>

NextScenario == ScenarioStep

SpecScenario == InitSimulator /\ [][NextScenario]_vars

(* the four updates of a frame, without the passes and events around them *)
UpdateStep ==
    /\ pc = "simulate"
    /\ steps < MaxUpdateSteps
    /\ \E dt \in 1..MaxFrameDt, key \in BOOLEAN, r \in SimRands :
         LET currentTime == lastTime + dt
             k == dt * SixtiethsPerTick
         IN
         /\ lastTime' = currentTime
         /\ keyD' = key
         /\ isRunning' = (key /\ currentScreen = 1)
         /\ SetClock(updateClock(currentTime, ClockRec))
         /\ SetHeart(updateHeartRate(k, isRunning', r, HeartRec))
         /\ SetBattery(updateBattery(currentTime, BatteryRec))
         /\ SetRun(updateRunning(k, isRunning', currentScreen, RunRec))
         /\ SetHold(k, isRunning')
         /\ jumped' = (jumped \/ StepsOverBoundary(lastTime, currentTime))
    /\ steps' = steps + 1
    /\ UNCHANGED <<currentScreen, inputRest, pc, polled, histVars, glVars>>

NextUpdate == UpdateStep

SpecUpdate == InitSimulator /\ [][NextUpdate]_vars

----------------------------------------------------------------------------
(* Screen navigation *)

NavTransitions == { <<0, 1>>, <<1, 0>>, <<1, 2>>, <<2, 1>> }

(* C1: currentScreen is always Clock (0), HeartRate (1) or Battery (2), and  *)
(* every screen change is Clock->HeartRate or HeartRate->Battery made by a   *)
(* click with the pointer in the right arrow, or HeartRate->Clock or         *)
(* Battery->HeartRate made by a click with the pointer in the left arrow.    *)
C1_ScreenNavigation ==
    /\ [](currentScreen \in {0, 1, 2})
    /\ [][ currentScreen' # currentScreen =>
             /\ <<currentScreen, currentScreen'>> \in NavTransitions
             /\ mouseClicked
             /\ currentScreen' > currentScreen => InRightArrow(mouseX, mouseY)
             /\ currentScreen' < currentScreen => InLeftArrow(mouseX, mouseY) ]_vars

(* the UI pass has just gone from Battery back to HeartRate by a left-arrow click *)
C1_Witness ==
    /\ pc = "scene"
    /\ currentScreen = 1
    /\ navCount = 1
    /\ mouseClicked
    /\ InLeftArrow(mouseX, mouseY)

(* C2: a screen change needs a pending click that was made while the pointer *)
(* was inside a navigation hot-rect of the current screen.                   *)
C2_ClickOutsideNeverNavigates ==
    [][ currentScreen' # currentScreen => clickInRect ]_vars

(* C3: a screen change needs a pending click that was made while watch-view  *)
(* mode was on.                                                              *)
C3_ClickOutsideModeNeverNavigates ==
    [][ currentScreen' # currentScreen => clickInMode ]_vars

(* C4: on Clock, in watch-view mode, with the pointer in the right arrow, the *)
(* UI pass that sees the click flag moves to HeartRate, however many clicks   *)
(* raised the flag, and the clicks of one poll cause at most one screen       *)
(* change in all.                                                             *)
C4_SingleTransition ==
    /\ [][ ( /\ pc = "ui"
             /\ currentScreen = 0
             /\ watchViewMode
             /\ mouseClicked
             /\ InRightArrow(mouseX, mouseY) ) => currentScreen' = 1 ]_vars
    /\ [](navCount <= 1)

(* two clicks were queued in one poll and the UI pass has moved Clock to HeartRate once *)
C4_Witness ==
    /\ pc = "scene"
    /\ currentScreen = 1
    /\ watchViewMode
    /\ clicksQueued >= 2
    /\ navCount = 1
    /\ InRightArrow(mouseX, mouseY)

(* C5: the click flag is false whenever event polling starts, and a flag seen *)
(* by a UI pass was raised by a click of the poll just before it: no UI pass  *)
(* has seen it before, and exactly one has once the pass is over.             *)
C5_ClickConsumedOncePerFrame ==
    /\ (pc = "poll" /\ polled = 0) => ~mouseClicked
    /\ (pc \in {"loop", "ui"} /\ mouseClicked) => (clickAge = 0 /\ clicksQueued >= 1)
    /\ (pc \in {"scene", "reset"} /\ mouseClicked) => clickAge = 1

(* a click that caused no transition has been seen by one UI pass and reset *)
C5_Witness ==
    /\ pc = "poll"
    /\ polled = 0
    /\ clickAge = 1
    /\ navCount = 0
    /\ ~mouseClicked

----------------------------------------------------------------------------
(* Clock *)

SecondOfDay(h, m, s) == h * 3600 + m * 60 + s

(* C6: hours, minutes and seconds stay within 0..23, 0..59 and 0..59 *)
C6_ClockRange ==
    /\ hours \in 0..23
    /\ minutes \in 0..59
    /\ seconds \in 0..59

(* a tick has wrapped 23:59:59 to 00:00:00 *)
C6_Witness ==
    /\ hours = 0 /\ minutes = 0 /\ seconds = 0
    /\ lastSecondTime > StartTime

(* C7: a call that ticks moves the clock to the next second of the day       *)
(* (modulo 86400); a call that does not tick leaves the three fields alone.  *)
C7_ClockCascade ==
    [][ IF lastSecondTime' # lastSecondTime
        THEN SecondOfDay(hours', minutes', seconds')
               = (SecondOfDay(hours, minutes, seconds) + 1) % 86400
        ELSE UNCHANGED <<hours, minutes, seconds>> ]_vars

(* a tick has carried 22:59:59 into 23:00:00 *)
C7_Witness ==
    /\ hours = 23 /\ minutes = 0 /\ seconds = 0
    /\ lastSecondTime > StartTime

----------------------------------------------------------------------------
(* Battery *)

(* C8: batteryPercent stays within 0..100 and never increases *)
C8_BatteryInvariant ==
    /\ [](batteryPercent \in 0..100)
    /\ [][ batteryPercent' <= batteryPercent ]_vars

(* the battery is empty and a further 10 s have passed since the last decrement *)
C8_Witness ==
    /\ batteryPercent = 0
    /\ lastTime - lastBatteryDrain >= TenSeconds

(* C9: while the battery is not empty, the decrements made so far number     *)
(* floor(T/10), T being the seconds elapsed since the timers were set.       *)
C9_DrainPerTenSeconds ==
    batteryPercent > 0 =>
        FullBattery - batteryPercent = (lastTime - StartTime) \div TenSeconds

(* C10 as stated: 1000 s after the start the battery is at 90 *)
C10_BatteryIs90 ==
    lastTime - StartTime = 1000 * TicksPerSec => batteryPercent = 90

(* C10 amended: 1000 s after the start the battery is between 0 and 99, and  *)
(* it is 0 (100 decrements, one per 10 s) when no frame stepped over a 10 s  *)
(* boundary.                                                                 *)
C10_BatteryAfter1000s ==
    lastTime - StartTime = 1000 * TicksPerSec =>
        /\ batteryPercent \in 0..99
        /\ ~jumped => batteryPercent = 0

(* 1000 s have passed with an update on every 10 s boundary *)
C10_Witness ==
    /\ lastTime - StartTime = 1000 * TicksPerSec
    /\ ~jumped
    /\ batteryPercent = 0

----------------------------------------------------------------------------
(* Heart rate *)

(* C11: after any number of updateHeartRate steps, 0 <= ekgOffset < 1 *)
C11_EkgOffsetInRange ==
    0 <= ekgOffset /\ ekgOffset < 1000

(* C12: when the run key has been held for at least 5 s, bpm rose strictly *)
(* at every step of the hold that started more than epsilon below 220      *)
C12_BpmMonotoneRise ==
    (isRunning /\ holdTime >= HoldSeconds) => ~holdBad

ScenarioHold == 3 * 60    \* 3 s in steps of 1/60 s

(* C13: from bpm = targetBpm = 70, after 180 running steps of 1/60 s,      *)
(* targetBpm = min(70 + 90, 220) = 160 and 70 < bpm < 160                  *)
C13_BpmScenario ==
    steps = ScenarioHold =>
        /\ targetBpm = Min(StartBpm + 90000, MaxBpm)
        /\ targetBpm = 160000
        /\ bpm < 160000
        /\ bpm > StartBpm

C13_Witness ==
    steps = ScenarioHold /\ isRunning /\ targetBpm = 160000 /\ bpm < targetBpm

----------------------------------------------------------------------------
(* Scene *)

(* C14: for every building and every reachable groundOffset the z the     *)
(* building is drawn at lies within [-100, 10], and both wrap loops stop:  *)
(* the first after at most groundOffset / 100 + 1 rounds, the second after *)
(* at most one                                                             *)
C14_BuildingWrap ==
    \A z \in Buildings :
        LET d == DrawnZ(z, groundOffset) IN
        /\ 0 - WrapSpan <= d.z /\ d.z <= BuildingNearZ
        /\ d.near <= groundOffset \div WrapSpan + 1
        /\ d.far <= 1

C14_Witness ==
    /\ groundOffset > WrapSpan
    /\ \E z \in Buildings : DrawnZ(z, groundOffset).near = 2

(* C15: in a frame whose update finds the run key released or another     *)
(* screen than HeartRate, runTime and groundOffset are unchanged and      *)
(* targetBpm does not rise                                                 *)
C15_RunningGate ==
    [][(pc = "loop" /\ pc' = "ui" /\ ~(keyD /\ currentScreen = 1)) =>
           /\ runTime' = runTime
           /\ groundOffset' = groundOffset
           /\ targetBpm' <= targetBpm]_vars

(* C16: cameraBasePitch lies within [-45, 45] degrees *)
C16_PitchClamp ==
    0 - PitchLimit <= cameraBasePitch /\ cameraBasePitch <= PitchLimit

C16_Witness ==
    cameraBasePitch = PitchLimit /\ ~firstMouse /\ polled > 0

(* C17: in every frame watchFBO is drawn into by the UI pass only, and      *)
(* watchScreenTexture is sampled by the scene pass only, after the UI pass  *)
(* has unbound the framebuffer; the stages follow one another in the order  *)
(* update, UI pass, scene pass, present                                     *)
StageOrder == { <<"loop", "ui">>, <<"ui", "scene">>, <<"scene", "reset">>,
                <<"reset", "poll">>, <<"poll", "loop">>, <<"loop", "done">> }

C17_RenderTargetSequencing ==
    [][/\ pc' # pc => <<pc, pc'>> \in StageOrder
       /\ pc' = "scene" => /\ boundFramebuffer' = "default"
                           /\ fboWriters' = {"ui"}
                           /\ texReaders' = {}
       /\ pc' \in {"reset", "poll"} => /\ fboWriters' = {"ui"}
                                       /\ texReaders' = {"scene"}]_vars

C17_Witness ==
    /\ pc = "reset"
    /\ fboWriters = {"ui"}
    /\ texReaders = {"scene"}
    /\ boundFramebuffer = "default"

WatchStateRest == <<hours, minutes, seconds, bpm, targetBpm, ekgOffset, ekgScale,
                    isRunning, batteryPercent>>

(* C19 as stated: the UI pass modifies no WatchState field *)
C19_CompositorReadOnly ==
    [][pc = "ui" => UNCHANGED <<currentScreen, WatchStateRest>>]_vars

(* C19: the UI pass modifies no WatchState field other than currentScreen;  *)
(* the other fields change only in the per-frame update, and currentScreen  *)
(* changes only in the UI pass                                              *)
C19_CompositorWritesOnlyScreen ==
    [][/\ pc = "ui" => UNCHANGED WatchStateRest
       /\ WatchStateRest' # WatchStateRest => (pc = "loop" /\ pc' = "ui")
       /\ currentScreen' # currentScreen => (pc = "ui" /\ pc' = "scene")]_vars

C19_Witness ==
    /\ pc = "scene"
    /\ navCount = 1
    /\ currentScreen = 1
    /\ bpm # StartBpm

(* C20: each of the 12 cube triangles is counter-clockwise seen from       *)
(* outside, so back-face culling drops no outward face                     *)
C20_CubeWinding ==
    /\ \A t \in CubeTriangles : WoundCCW(t)
    /\ CulledOutwardFaces(faceCullingEnabled) = {}

----------------------------------------------------------------------------
(* Update rules *)

(* C22: an updateClock call advances the clock by at most one second, only *)
(* when at least 1.0 s has passed since the last tick (or since startup);  *)
(* a call made sooner changes nothing                                      *)
C22_ClockTickRule ==
    [][LET before  == SecondOfDay(hours, minutes, seconds)
           after   == SecondOfDay(hours', minutes', seconds')
           elapsed == lastTime' - lastSecondTime
       IN  /\ after \in {before, (before + 1) % 86400}
           /\ after # before => elapsed >= OneSecond
           /\ elapsed < OneSecond => UNCHANGED clockVars]_vars

(* a call made half a second after a tick has left the clock alone *)
C22_Witness ==
    /\ lastSecondTime > StartTime
    /\ lastTime > lastSecondTime
    /\ lastTime - lastSecondTime < OneSecond

(* C23: a running step raises targetBpm by 30*dt, capped at 220; a         *)
(* non-running step never raises targetBpm and never takes it below 60     *)
C23_TargetBpmStep ==
    [][steps' = steps + 1 =>
         IF isRunning'
         THEN \E k \in SimDts : targetBpm' = Min(targetBpm + (30000 * k) \div 60, MaxBpm)
         ELSE targetBpm' <= targetBpm /\ targetBpm' >= RestBpm]_vars

(* C24: groundOffset lies within [0, GROUND_SEGMENT_LENGTH] *)
C24_GroundOffsetInRange ==
    0 <= groundOffset /\ groundOffset <= GroundSegmentLength

(* C30: after every updateHeartRate step bpm lies between its previous     *)
(* value and the new targetBpm, 60 <= bpm <= 220, and ekgScale is positive *)
C30_BpmNeverOvershoots ==
    [][steps' = steps + 1 =>
         /\ Min(bpm, targetBpm') <= bpm' /\ bpm' <= Max(bpm, targetBpm')
         /\ RestBpm <= bpm' /\ bpm' <= MaxBpm
         /\ ekgScale'[1] = "num" /\ ekgScale'[2] > 0]_vars

(* C25: the four per-frame updates give the same state in each of the 24   *)
(* orders, for the same dt, time, isRunning and random draw                *)
C25_UpdateOrderIndependence ==
    [][steps' = steps + 1 =>
         \E r \in SimRands :
           \A o \in UpdateOrders :
             applyUpdates(o, 1, WorldRec, lastTime',
                          (lastTime' - lastTime) * SixtiethsPerTick,
                          isRunning', currentScreen, r) = WorldRec']_vars

(* an update in which the clock ticked and the runner moved *)
C25_Witness ==
    /\ steps > 0
    /\ isRunning
    /\ groundOffset > 0
    /\ lastSecondTime = lastTime
    /\ bpm > StartBpm

----------------------------------------------------------------------------
(* Events and loop exit *)

StagedInput == <<watchViewMode, mouseX, mouseY, mouseClicked>>

SimAndRender == <<currentScreen, clockVars, batteryVars, lastTime, isRunning,
                  heartVars, runVars, glVars>>

(* C27: callbacks run only inside glfwPollEvents, where they change neither *)
(* simulation nor rendering state; watchViewMode, mouseX, mouseY and        *)
(* mouseClicked keep their values through update, UI pass and scene pass    *)
C27_InputStagedInPoll ==
    [][/\ (pc \in {"loop", "ui", "scene"} /\ pc' # "done") => UNCHANGED StagedInput
       /\ (inputVars' # inputVars /\ pc # "reset") => (pc = "poll" /\ pc' = "poll")
       /\ (pc = "poll" /\ pc' = "poll") => UNCHANGED SimAndRender]_vars

(* a click and a pointer position staged by the poll are in use by a frame *)
C27_Witness ==
    /\ pc = "scene"
    /\ mouseClicked /\ watchViewMode
    /\ mouseX # 0

(* C28: with a close request delivered the loop renders no further frame   *)
(* and its next condition check leaves to teardown; only an ESC press or a *)
(* window-close request makes that request                                  *)
C28_LoopExit ==
    [][/\ windowShouldClose => (windowShouldClose' /\ pc' \notin {"ui", "scene", "reset"})
       /\ (pc = "loop" /\ windowShouldClose) => pc' = "done"
       /\ pc' = "done" => /\ pc = "loop" /\ windowShouldClose
                          /\ glLive' \cap TeardownDeletes = {}
       /\ (windowShouldClose' /\ ~windowShouldClose) =>
             /\ pc = "poll"
             /\ UNCHANGED <<StagedInput, lastMouseY, firstMouse, cameraBasePitch,
                            depthTestEnabled, faceCullingEnabled, keyD>>]_vars

C28_Witness ==
    /\ pc = "done"
    /\ windowShouldClose
    /\ lastTime > StartTime

(* C29: a cursor move in watch-view mode leaves cameraBasePitch unchanged; *)
(* outside it the pitch moves by the distance from the pointer's previous  *)
(* position, whichever mode that position was reported in                  *)
C29_PitchFrozenInWatchView ==
    [][cameraBasePitch' =
         IF watchViewMode THEN cameraBasePitch
         ELSE clamp(cameraBasePitch + (IF firstMouse THEN 0 ELSE mouseY - mouseY'),
                    0 - PitchLimit, PitchLimit)]_vars

(* the pointer went up outside watch-view mode and came back down inside it *)
C29_Witness ==
    /\ watchViewMode
    /\ cameraBasePitch = 440
    /\ mouseY = 540 /\ lastMouseY = 540

----------------------------------------------------------------------------
(* Position of each object in the documented draw order. *)
DrawRank(object) ==
    CASE object = "ground"      -> 1
      [] object = "road"        -> 2
      [] object = "building"    -> 3
      [] object = "hand"        -> 4
      [] object = "bezel"       -> 5
      [] object = "watchScreen" -> 6

(* C21: in every frame's scene pass the draws are issued in the order ground
   segments, road strips, buildings, hand, watch bezel, watch screen quad; the
   emissive flag is 1 for the watch screen quad draw and 0 for every other
   draw, and it is 0 again when the pass has ended. *)
C21_SceneDrawOrder ==
    /\ uIsEmissive = 0
    /\ pc # "reset" => sceneDraws = <<>>
    /\ pc = "reset" =>
         /\ {sceneDraws[i][1] : i \in DOMAIN sceneDraws} =
              {"ground", "road", "building", "hand", "bezel", "watchScreen"}
         /\ \A i \in 1..(Len(sceneDraws) - 1) :
              DrawRank(sceneDraws[i][1]) <= DrawRank(sceneDraws[i + 1][1])
         /\ \A i \in DOMAIN sceneDraws :
              sceneDraws[i][2] = (IF sceneDraws[i][1] = "watchScreen" THEN 1 ELSE 0)

C21_Witness ==
    /\ pc = "reset"
    /\ lastTime > StartTime + 1
    /\ Len(sceneDraws) = 2 * NumGroundSegments + 2 * NumBuildingsPerSide + 3
    /\ sceneDraws[Len(sceneDraws)] = <<"watchScreen", 1>>

----------------------------------------------------------------------------
(* Frames on the HeartRate screen, the first of them a stall: each step is the
   simulator update of a frame followed by the digit part of
   drawHeartRateScreen. *)

MaxHeartFrames == 2
HeartDts   == {1, 60, 210}      \* 1/60 s, 1 s, 3.5 s
HeartRands == {0, 10, 19}       \* rand() % 20

HeartFrame ==
    /\ pc = "simulate"
    /\ steps < MaxHeartFrames
    /\ \E k \in HeartDts, key \in BOOLEAN, r \in HeartRands :
         /\ keyD' = key
         /\ isRunning' = (key /\ currentScreen = 1)
         /\ SetHeart(updateHeartRate(k, isRunning', r, HeartRec))
         /\ SetRun(updateRunning(k, isRunning', currentScreen, RunRec))
         /\ SetHold(k, isRunning')
    /\ steps' = steps + 1
    /\ LET ui == drawDigits(currentScreen, digits, hours, minutes, seconds, bpm',
                            batteryPercent) IN
         /\ digits' = ui.digits
         /\ uiDigits' = PassRecord(currentScreen, digits, ui)
         /\ glLive' = glLive \cup (IF ui.drawn # NoTexture
                                   THEN {DigitTexture(currentScreen)} ELSE {})
    /\ UNCHANGED <<currentScreen, clockVars, batteryVars, lastTime, inputRest, pc,
                   polled, histVars, jumped, boundFramebuffer, fboWriters, texReaders,
                   sceneVars>>

NextHeartScreen == HeartFrame

SpecHeartScreen == InitSimulator /\ [][NextHeartScreen]_vars

(* C26: each of the clock, BPM and battery-percentage textures is regenerated
   in a frame if and only if the formatted string of its value differs from
   the string it was last generated for; the texture drawn shows the current
   value; the previous texture is deleted before its replacement is created,
   so at most one live texture exists per screen at any time. *)
C26_DigitMemoization ==
    /\ \A t \in DOMAIN digits.live : digits.live[t] <= 1
    /\ uiDigits # NoPass =>
         /\ uiDigits.generated <=> (uiDigits.value # uiDigits.before)
         /\ uiDigits.drawn = uiDigits.value

====
